---------------------------- MODULE Spec2Model ----------------------------
(***************************************************************************)
(* A model of HTMLtoMD.hpp: ConvertHTMLToMarkdown, the stack-driven parser *)
(* ParseHTMLToAST and the renderer AstToMarkdown.                          *)
(*                                                                         *)
(* A std::wstring is a sequence of one-character strings; indices into it  *)
(* are 0-based as in the source, and npos is the "not found" index.        *)
(* An ASTNode is a record; an ASTNode* held by the parser's stack is the   *)
(* path (sequence of child positions) from the root to that node.          *)
(***************************************************************************)
EXTENDS Integers, Sequences, FiniteSets, TLC

\* A wide-string literal, character by character.
Str(s) == [i \in 1..Len(s) |-> SubSeq(s, i, i)]

npos == -1

Min(S) == CHOOSE i \in S : \A j \in S : i <= j

\* s[i], 0-based.
At(s, i) == s[i + 1]

\* std::wstring::substr(pos, n) and substr(pos), for pos <= size.
substr(s, pos, n) ==
    LET last == IF pos + n > Len(s) THEN Len(s) ELSE pos + n
    IN  SubSeq(s, pos + 1, last)

substrFrom(s, pos) == SubSeq(s, pos + 1, Len(s))

\* std::wstring::find(pat, pos): the first index >= pos where pat occurs.
find(s, pat, pos) ==
    LET hits == {i \in pos..(Len(s) - Len(pat)) :
                    SubSeq(s, i + 1, i + Len(pat)) = pat}
    IN  IF hits = {} THEN npos ELSE Min(hits)

(***************************************************************************)
(* The static tables.                                                      *)
(***************************************************************************)
basic_markdown_tags ==
    (Str("p") :> <<Str("\n\n"), <<>>>>) @@
    (Str("strong") :> <<Str("**"), Str("**")>>) @@
    (Str("b") :> <<Str("**"), Str("**")>>) @@
    (Str("em") :> <<Str("_"), Str("_")>>) @@
    (Str("i") :> <<Str("_"), Str("_")>>) @@
    (Str("del") :> <<Str("~~"), Str("~~")>>) @@
    (Str("ins") :> <<Str("__"), Str("__")>>) @@
    (Str("br") :> <<Str("\n"), <<>>>>) @@
    (Str("hr") :> <<Str("\n\n_________________\n\n"), <<>>>>) @@
    (Str("form") :> <<Str("\n\n[form]\n\n"), <<>>>>) @@
    (Str("blockquote") :> <<Str("\n> "), <<>>>>)

skip_tags == {Str("script"), Str("style"), Str("title")}

html_entities ==
    (Str("&quot;") :> Str("\"")) @@
    (Str("&apos;") :> Str("'")) @@
    (Str("&amp;") :> Str("&")) @@
    (Str("&lt;") :> Str("<")) @@
    (Str("&nbsp;") :> Str(" ")) @@
    (Str("&gt;") :> Str(">"))

self_closing_tags ==
    {Str("area"), Str("base"), Str("br"), Str("col"), Str("command"),
     Str("embed"), Str("hr"), Str("img"), Str("input"), Str("keygen"),
     Str("link"), Str("meta"), Str("param"), Str("source"), Str("track"),
     Str("wbr")}

\* The set the driver searches the input for.
tags ==
    {Str("<html"), Str("<head"), Str("<body"), Str("<div"), Str("<p"),
     Str("<a"), Str("<img"), Str("<span"), Str("<table"), Str("<tr"),
     Str("<td"), Str("<ul"), Str("<li"), Str("<h1"), Str("<h2"), Str("<h3"),
     Str("<h4"), Str("<h5"), Str("<h6"), Str("</html"), Str("</head"),
     Str("</body"), Str("</div"), Str("</p"), Str("</a"), Str("</img"),
     Str("</span"), Str("</table"), Str("</tr"), Str("</td"), Str("</ul"),
     Str("</li"), Str("</h1"), Str("</h2"), Str("</h3"), Str("</h4"),
     Str("</h5"), Str("</h6")}

(***************************************************************************)
(* The AST.                                                                *)
(***************************************************************************)
ROOT == "ROOT"
TEXT == "TEXT"
ELEMENT == "ELEMENT"

EmptyMap == [k \in {} |-> <<>>]

ASTNode(type, name, value, attributes) ==
    [type |-> type, name |-> name, value |-> value,
     attributes |-> attributes, children |-> <<>>]

\* The node a stack entry points to.
RECURSIVE Deref(_, _)
Deref(node, path) ==
    IF path = <<>> THEN node
    ELSE Deref(node.children[Head(path)], Tail(path))

\* ptr->children.push_back(child)
RECURSIVE PushChild(_, _, _)
PushChild(node, path, child) ==
    IF path = <<>>
    THEN [node EXCEPT !.children = Append(@, child)]
    ELSE [node EXCEPT !.children[Head(path)] =
                          PushChild(@, Tail(path), child)]

(***************************************************************************)
(* Trim, ParseTag, ParseAttributes.                                        *)
(***************************************************************************)
TrimSet == {" ", "\t", "\n", "\r"}

Trim(str) ==
    LET keep == {i \in 0..(Len(str) - 1) : At(str, i) \notin TrimSet}
    IN  IF keep = {} THEN <<>>
        ELSE LET first == Min(keep)
                 last  == CHOOSE i \in keep : \A j \in keep : j <= i
             IN  substr(str, first, last - first + 1)

ParseTag(tag) ==
    LET space_index == find(tag, <<" ">>, 0)
    IN  [tag_name   |-> IF space_index = npos THEN tag
                        ELSE substr(tag, 0, space_index),
         attributes |-> IF space_index = npos THEN <<>>
                        ELSE Trim(substrFrom(tag, space_index + 1))]

\* The whitespace operator>> skips and stops at (with the vertical tab, which
\* no input of the model holds).
StreamSpace == {" ", "\t", "\n", "\r", "\f"}

\* The tokens `attribute_stream >> attribute` yields, in order.
RECURSIVE StreamTokens(_, _, _)
StreamTokens(s, i, cur) ==
    IF i >= Len(s)
    THEN IF cur = <<>> THEN <<>> ELSE <<cur>>
    ELSE IF At(s, i) \in StreamSpace
         THEN IF cur = <<>> THEN StreamTokens(s, i + 1, <<>>)
              ELSE <<cur>> \o StreamTokens(s, i + 1, <<>>)
         ELSE StreamTokens(s, i + 1, Append(cur, At(s, i)))

StripQuotes(value) ==
    IF Len(value) >= 2 /\ At(value, 0) = "\"" /\ At(value, Len(value) - 1) = "\""
    THEN substr(value, 1, Len(value) - 2)
    ELSE value

\* attribute_map[key] = value
MapPut(m, key, value) ==
    [k \in DOMAIN m \cup {key} |-> IF k = key THEN value ELSE m[k]]

RECURSIVE FillAttributes(_, _, _)
FillAttributes(toks, i, attribute_map) ==
    IF i > Len(toks) THEN attribute_map
    ELSE LET attribute   == toks[i]
             equal_index == find(attribute, <<"=">>, 0)
         IN  IF equal_index # npos
             THEN FillAttributes(toks, i + 1,
                      MapPut(attribute_map,
                             substr(attribute, 0, equal_index),
                             StripQuotes(substrFrom(attribute, equal_index + 1))))
             ELSE FillAttributes(toks, i + 1, attribute_map)

ParseAttributes(attributes) ==
    IF attributes = <<>> THEN EmptyMap
    ELSE FillAttributes(StreamTokens(attributes, 0, <<>>), 1, EmptyMap)

(***************************************************************************)
(* Entity substitution of one text run: for each entity, in the order the  *)
(* unordered_map is iterated, replace its occurrences left to right.       *)
(***************************************************************************)
RECURSIVE ReplaceEntity(_, _, _, _)
ReplaceEntity(text, first, second, pos) ==
    LET p == find(text, first, pos)
    IN  IF p = npos THEN text
        ELSE ReplaceEntity(substr(text, 0, p) \o second
                               \o substrFrom(text, p + Len(first)),
                           first, second, p + Len(second))

RECURSIVE DecodeEntities(_, _, _)
DecodeEntities(text, order, i) ==
    IF i > Len(order) THEN text
    ELSE DecodeEntities(ReplaceEntity(text, order[i], html_entities[order[i]], 0),
                        order, i + 1)

(***************************************************************************)
(* AstToMarkdown.  A call either returns its markdown or throws; ex names  *)
(* the exception ("none" when the call returned).                          *)
(***************************************************************************)
Returned(markdown) == [ex |-> "none", markdown |-> markdown]
Thrown(ex) == [ex |-> ex, markdown |-> <<>>]

\* std::wstring(n, c)
RECURSIVE Repeat(_, _)
Repeat(n, s) == IF n <= 0 THEN <<>> ELSE s \o Repeat(n - 1, s)

\* The character U+0060, which a TLA+ string cannot spell, and L"```".
GraveAccent == "U+0060"
Fence == <<GraveAccent, GraveAccent, GraveAccent>>

Digits == <<"0", "1", "2", "3", "4", "5", "6", "7", "8", "9">>

\* std::to_wstring of a non-negative int
RECURSIVE to_wstring(_)
to_wstring(n) ==
    IF n < 10 THEN <<Digits[n + 1]>>
    ELSE to_wstring(n \div 10) \o <<Digits[(n % 10) + 1]>>

\* std::stoi of a one-character string: its value, or npos when stoi throws
\* std::invalid_argument.
stoi(s) ==
    IF s # <<>> /\ \E d \in 1..10 : Digits[d] = s[1]
    THEN (CHOOSE d \in 1..10 : Digits[d] = s[1]) - 1
    ELSE npos

\* The value every recursive call receives for list_level: the default
\* argument, since no call site passes one.
DefaultListLevel == 0

\* The first test of case ELEMENT.
IsHidden(child) ==
    /\ Str("class") \in DOMAIN child.attributes
    /\ child.attributes[Str("class")] = Str("hidden")

\* WrapNewline without the test for p.
WrapNewlineNotP(name) ==
    IF name = Str("hr") \/ substr(name, 0, 1) = Str("h")
    THEN Str("\n") ELSE <<>>

\* The newline appended after a direct-wrap element.
WrapNewline(name) ==
    IF name = Str("p") \/ name = Str("hr") \/ substr(name, 0, 1) = Str("h")
    THEN Str("\n") ELSE <<>>

IsCell(cell) == cell.name = Str("td") \/ cell.name = Str("th")

RECURSIVE AstToMarkdown(_, _)
RECURSIVE RenderChildren(_, _, _, _, _)
RECURSIVE RowText(_, _, _, _)
RECURSIVE SectionRows(_, _, _, _)
RECURSIVE RenderTable(_, _, _)

\* The inner loop over a row's cells: row_text before the closing "|\n",
\* and the number of cells met.
RowText(row, i, row_text, cells) ==
    IF i > Len(row.children)
    THEN [ex |-> "none", markdown |-> row_text, cells |-> cells]
    ELSE LET cell == row.children[i]
         IN  IF IsCell(cell)
             THEN LET r == AstToMarkdown(cell, DefaultListLevel)
                  IN  IF r.ex # "none"
                      THEN [ex |-> r.ex, markdown |-> <<>>, cells |-> cells]
                      ELSE RowText(row, i + 1,
                                   row_text \o Str("|") \o r.markdown,
                                   cells + 1)
             ELSE RowText(row, i + 1, row_text, cells)

\* The loop over the rows of a thead, tbody or tfoot: the rows' text and the
\* separator text a thead accumulates beside it.
SectionRows(section, i, rows, separator) ==
    IF i > Len(section.children)
    THEN [ex |-> "none", markdown |-> rows, separator |-> separator]
    ELSE LET row == section.children[i]
         IN  IF row.name = Str("tr")
             THEN LET r == RowText(row, 1, <<>>, 0)
                  IN  IF r.ex # "none"
                      THEN [ex |-> r.ex, markdown |-> <<>>, separator |-> <<>>]
                      ELSE SectionRows(section, i + 1,
                               rows \o r.markdown \o Str("|\n"),
                               separator \o Repeat(r.cells, Str("|---"))
                                         \o Str("|\n"))
             ELSE SectionRows(section, i + 1, rows, separator)

\* The loop over a table's children.
RenderTable(table, i, acc) ==
    IF i > Len(table.children)
    THEN Returned(acc.caption_text \o acc.header_row \o acc.separator_row
                      \o acc.body_rows \o acc.footer_rows)
    ELSE LET table_child == table.children[i]
         IN  IF table_child.name = Str("tr")
             THEN LET r == RowText(table_child, 1, <<>>, 0)
                  IN  IF r.ex # "none" THEN Thrown(r.ex)
                      ELSE RenderTable(table, i + 1,
                               [acc EXCEPT !.body_rows =
                                               @ \o r.markdown \o Str("|\n")])
             ELSE IF table_child.name = Str("thead")
             THEN LET r == SectionRows(table_child, 1, <<>>, <<>>)
                  IN  IF r.ex # "none" THEN Thrown(r.ex)
                      ELSE RenderTable(table, i + 1,
                               [acc EXCEPT !.header_row = @ \o r.markdown,
                                           !.separator_row = @ \o r.separator])
             ELSE IF table_child.name = Str("tbody")
             THEN LET r == SectionRows(table_child, 1, <<>>, <<>>)
                  IN  IF r.ex # "none" THEN Thrown(r.ex)
                      ELSE RenderTable(table, i + 1,
                               [acc EXCEPT !.body_rows = @ \o r.markdown])
             ELSE IF table_child.name = Str("tfoot")
             THEN LET r == SectionRows(table_child, 1, <<>>, <<>>)
                  IN  IF r.ex # "none" THEN Thrown(r.ex)
                      ELSE RenderTable(table, i + 1,
                               [acc EXCEPT !.footer_rows = @ \o r.markdown])
             ELSE IF table_child.name = Str("caption")
             THEN LET r == AstToMarkdown(table_child, DefaultListLevel)
                  IN  IF r.ex # "none" THEN Thrown(r.ex)
                      ELSE RenderTable(table, i + 1,
                               [acc EXCEPT !.caption_text =
                                               Str("\n**") \o r.markdown
                                                   \o Str("**\n")])
             ELSE RenderTable(table, i + 1, acc)

\* attributes.at(key) of the branches a, img, input and label: TRUE when the
\* lookup throws std::out_of_range.
AtThrows(child, key) == key \notin DOMAIN child.attributes

\* One pass of the loop body for a child of type ELEMENT that is not hidden:
\* the text it appends and the counters it leaves.
ElementMarkdown(node, child, list_level, counters) ==
    LET list_prefix == Repeat(list_level, Str("\t"))
        inner       == AstToMarkdown(child, DefaultListLevel)
        Out(r, before, after) ==
            IF r.ex # "none"
            THEN [ex |-> r.ex, markdown |-> <<>>, counters |-> counters]
            ELSE [ex |-> "none", markdown |-> before \o r.markdown \o after,
                  counters |-> counters]
        Fail(ex) == [ex |-> ex, markdown |-> <<>>, counters |-> counters]
    IN
    IF child.name \in DOMAIN basic_markdown_tags
    THEN Out(inner, basic_markdown_tags[child.name][1],
             basic_markdown_tags[child.name][2] \o WrapNewline(child.name))
    ELSE IF child.name = Str("a")
    THEN IF AtThrows(child, Str("href")) THEN Fail("map::at")
         ELSE LET href == child.attributes[Str("href")]
              IN  IF inner.ex = "none" /\ inner.markdown = <<>>
                  THEN Out(inner, href, <<>>)
                  ELSE Out(inner, Str("["), Str("](") \o href \o Str(")"))
    ELSE IF child.name = Str("li")
    THEN IF node.name = Str("ol")
         THEN [Out(inner,
                   Str("\n") \o list_prefix
                       \o to_wstring(counters[Len(counters)]) \o Str(". "),
                   <<>>)
               EXCEPT !.counters =
                   [counters EXCEPT ![Len(counters)] = @ + 1]]
         ELSE Out(inner, Str("\n") \o list_prefix \o Str("- "), <<>>)
    ELSE IF child.name = Str("ol") \/ child.name = Str("ul")
    THEN \* counters.push_back(1); list_level++; the call, which is given
         \* neither; list_level--; counters.pop_back()
         Out(inner, Str("\n"), <<>>)
    ELSE IF child.name = Str("img")
    THEN IF AtThrows(child, Str("src")) \/ AtThrows(child, Str("alt"))
         THEN Fail("map::at")
         ELSE Out(Returned(<<>>),
                  Str("![") \o child.attributes[Str("alt")] \o Str("](")
                      \o child.attributes[Str("src")] \o Str(")\n"),
                  <<>>)
    ELSE IF child.name = Str("code")
    THEN IF node.name # <<>> /\ node.name # Str("pre")
         THEN Out(inner, Fence, Fence \o Str("\n"))
         ELSE Out(inner, <<>>, <<>>)
    ELSE IF substr(child.name, 0, 1) = Str("h") /\ Len(child.name) = 2
    THEN LET header_level == stoi(substr(child.name, 1, 1))
         IN  IF header_level = npos THEN Fail("stoi")
             ELSE Out(inner,
                      Str("\n") \o Repeat(header_level, Str("#")) \o Str(" "),
                      Str("\n"))
    ELSE IF child.name = Str("input")
    THEN IF AtThrows(child, Str("type")) THEN Fail("map::at")
         ELSE Out(Returned(<<>>),
                  Str("\n\n[input: ") \o child.attributes[Str("type")]
                      \o Str("]\n\n"),
                  <<>>)
    ELSE IF child.name = Str("label")
    THEN IF AtThrows(child, Str("value")) THEN Fail("map::at")
         ELSE Out(Returned(<<>>),
                  Str("\n\n[label: ") \o child.attributes[Str("value")]
                      \o Str("]\n\n"),
                  <<>>)
    ELSE IF child.name = Str("table")
    THEN Out(RenderTable(child, 1,
                 [header_row |-> <<>>, separator_row |-> <<>>,
                  body_rows |-> <<>>, footer_rows |-> <<>>,
                  caption_text |-> <<>>]),
             <<>>, <<>>)
    ELSE Out(inner, <<>>, <<>>)

\* The loop `for (auto& child : node.children)` from child i on.
RenderChildren(node, list_level, i, counters, markdown) ==
    IF i > Len(node.children) THEN Returned(markdown)
    ELSE LET child == node.children[i]
         IN  IF child.type = ROOT
             THEN LET r == AstToMarkdown(child, DefaultListLevel)
                  IN  IF r.ex # "none" THEN r
                      ELSE RenderChildren(node, list_level, i + 1, counters,
                                          markdown \o r.markdown)
             ELSE IF child.type = TEXT
             THEN RenderChildren(node, list_level, i + 1, counters,
                                 markdown \o child.value)
             ELSE IF IsHidden(child)
             THEN RenderChildren(node, list_level, i + 1, counters, markdown)
             ELSE LET r == ElementMarkdown(node, child, list_level, counters)
                  IN  IF r.ex # "none" THEN Thrown(r.ex)
                      ELSE RenderChildren(node, list_level, i + 1, r.counters,
                                          markdown \o r.markdown)

AstToMarkdown(node, list_level) ==
    RenderChildren(node, list_level, 1, <<1>>, <<>>)

(***************************************************************************)
(* The inputs: every concatenation of at most MaxFragments fragments, and  *)
(* a list of whole documents.                                              *)
(***************************************************************************)
MaxFragments == 3

Fragments ==
    {Str("<p>"), Str("</p>"), Str("<b>"), Str("</b>"), Str("x"),
     Str("&amp;lt;"), Str("<!--"), Str("-->"), Str("<script>"),
     Str("</script>"), Str("</>"), Str("<a>"), Str("<"), Str(" ")}

RECURSIVE Concat(_)
Concat(ss) == IF ss = <<>> THEN <<>> ELSE Head(ss) \o Concat(Tail(ss))

FragmentDocs ==
    {Concat(fs) : fs \in UNION {[1..n -> Fragments] : n \in 0..MaxFragments}}

\* <name>text</name>
Wrap(name, text) ==
    Str("<") \o name \o Str(">") \o text \o Str("</") \o name \o Str(">")

\* Texts without '<' and without entities.
PlainTexts == {Str("x"), Str("a b")}

WrapDocs ==
    {Wrap(n, t) : n \in DOMAIN basic_markdown_tags, t \in PlainTexts} \cup
    {Wrap(Str("div"), Wrap(n, t)) :
        n \in DOMAIN basic_markdown_tags, t \in PlainTexts}

\* A raw-text element, with and without attributes in its opening tag,
\* alone and after a paragraph.
RawTextBody == Str("if (a < b) {}")

RawTextDocs ==
    {pre \o Str("<") \o n \o a \o Str(">") \o RawTextBody
         \o Str("</") \o n \o Str(">") :
        pre \in {<<>>, Str("<p>x</p>")}, n \in skip_tags,
        a \in {<<>>, Str(" type=\"t\"")}}

MismatchDoc == Str("<div><p>text</div>")
NestedListDoc == Str("<ul><li>a<ul><li>b</li></ul></li></ul>")
HiddenRowDoc == Str("<table><tr class=\"hidden\"><td>x</td></tr></table>")
ScriptDoc == Str("<p>x</p><script>if (a < b) {}</script>")
AmpLtDoc == Str("<p>&amp;lt;</p>")
PopRootDoc == Str("<p></p></>x")

FixedDocs ==
    WrapDocs \cup RawTextDocs \cup
    {MismatchDoc, NestedListDoc, HiddenRowDoc, AmpLtDoc, PopRootDoc,
     Str("<div><style>x</div>"),
     Str("<div class=\"hidden\"><p>x</p></div>y"),
     Str("<ol><li>a</li><li class=\"hidden\">b</li><li>c</li></ol><ol><li>d</li></ol>"),
     Str("<table><caption>c</caption><thead><tr><th>a</th><th>b</th></tr></thead><tbody><tr><td>1</td><td>2</td></tr></tbody><tfoot><tr><td>f</td></tr></tfoot></table>"),
     Str("<table><tbody class=\"hidden\"><tr><td>x</td></tr></tbody><caption class=\"hidden\">c</caption></table>"),
     Str("<table><tr><td class=\"hidden\">x</td><td>y</td></tr></table>"),
     Str("<a>x</a>"), Str("<a href=\"u\">x</a>"), Str("<a href=\"u\"></a>"),
     Str("<p>x<img>y</p>"), Str("<img src=\"s\" alt=\"t\">"),
     Str("<p><input></p>"), Str("<p><input type=text></p>"),
     Str("<p><label>x</label></p>"), Str("<p><label value=\"v\">x</label></p>"),
     Str("<h1>t</h1>"), Str("<p><hx>t</hx></p>"),
     Str("<pre><code>c</code></pre><p><code>d</code></p>"),
     Str("<p>a &amp;quot; &amp;amp; &lt;b&gt;</p>"), Str("<p>&amp;gt;</p>"),
     Str("<p>x"), Str("<div><p>x"), Str("<p>x</p></ p>y"),
     Str("<p"), Str("<p><!-- x"), Str("<br>x</br><p>")}

Inputs == FragmentDocs \cup FixedDocs

\* The orders in which the build may iterate html_entities (an
\* unordered_map leaves it to the library): the order of the initialiser,
\* its reverse, and the order a libstdc++ build iterates in.
DeclaredOrder ==
    <<Str("&quot;"), Str("&apos;"), Str("&amp;"), Str("&lt;"), Str("&nbsp;"),
      Str("&gt;")>>

EntityOrders ==
    {DeclaredOrder,
     [i \in 1..Len(DeclaredOrder) |-> DeclaredOrder[Len(DeclaredOrder) + 1 - i]],
     <<Str("&nbsp;"), Str("&lt;"), Str("&amp;"), Str("&gt;"), Str("&apos;"),
       Str("&quot;")>>}

(***************************************************************************)
(* The state of one call of ConvertHTMLToMarkdown.                         *)
(***************************************************************************)
VARIABLES
    html_input,     \* the argument
    entity_order,   \* the iteration order of html_entities in this build
    pc,             \* "start", "parse", "render", "catch", "done", "crashed"
    current_index,  \* ParseHTMLToAST's scan position
    root,           \* ParseHTMLToAST's tree
    stack,          \* ParseHTMLToAST's stack of open nodes, top last
    caught,         \* what() of the exception thrown, "none" if none
    result          \* the value returned, once pc = "done"

vars == <<html_input, entity_order, pc, current_index, root, stack, caught,
          result>>

Init ==
    /\ html_input \in Inputs
    /\ entity_order \in EntityOrders
    /\ pc = "start"
    /\ current_index = 0
    /\ root = ASTNode(ROOT, <<>>, <<>>, EmptyMap)
    /\ stack = <<>>
    /\ caught = "none"
    /\ result = <<>>

(***************************************************************************)
(* ConvertHTMLToMarkdown: the containment check.                           *)
(***************************************************************************)
\* ContainsTag looking for any '<' instead of the tags of the set.
ContainsAngle(input) == find(input, <<"<">>, 0) # npos

ContainsTag(input) == \E tag \in tags : find(input, tag, 0) # npos

\* No tag of the set occurs: the input is returned as it is.
ReturnNotHTML ==
    /\ pc = "start"
    /\ ~ContainsTag(html_input)
    /\ pc' = "done"
    /\ result' = html_input
    /\ UNCHANGED <<html_input, entity_order, current_index, root, stack, caught>>

\* Some tag occurs: the try block calls ParseHTMLToAST, which seeds its
\* stack with &root.
EnterParse ==
    /\ pc = "start"
    /\ ContainsTag(html_input)
    /\ pc' = "parse"
    /\ stack' = << <<>> >>
    /\ UNCHANGED <<html_input, entity_order, current_index, root, caught, result>>

(***************************************************************************)
(* ParseHTMLToAST: one action per iteration of the loop, by the branch     *)
(* the iteration takes.                                                    *)
(***************************************************************************)
InLoop == pc = "parse" /\ current_index < Len(html_input)

\* `char c = html_input[current_index]` keeps the low byte of the wide
\* character; on the characters of the model's inputs that is the character.
AtTag == InLoop /\ At(html_input, current_index) = "<"

end_tag_index == find(html_input, <<">">>, current_index)

\* The text between '<' and the next '>'.
tag == substr(html_input, current_index + 1,
              end_tag_index - current_index - 1)

IsComment == substr(tag, 0, 3) = Str("!--")

IsSkipTag == tag \in skip_tags

\* The last branch: an opening or a closing tag.
AtElementTag ==
    AtTag /\ end_tag_index # npos /\ ~IsComment /\ ~IsSkipTag

is_closing_tag == tag # <<>> /\ At(tag, 0) = "/"

parsed_tag == ParseTag(IF is_closing_tag THEN substrFrom(tag, 1) ELSE tag)

Throw(what) ==
    /\ pc' = "catch"
    /\ caught' = what
    /\ UNCHANGED <<html_input, entity_order, current_index, root, stack, result>>

NoClosingBracket == "no closing '>'"
NoClosingComment == "no closing '-->'"
NoClosingTag == "no closing tag"
TagMismatch == "closing tag does not match"

UnterminatedTag ==
    /\ AtTag
    /\ end_tag_index = npos
    /\ Throw(NoClosingBracket)

SkipComment ==
    /\ AtTag /\ end_tag_index # npos /\ IsComment
    /\ LET end_comment_index == find(html_input, Str("-->"), current_index)
       IN  /\ end_comment_index # npos
           /\ current_index' = end_comment_index + 3
    /\ UNCHANGED <<html_input, entity_order, pc, root, stack, caught, result>>

UnterminatedComment ==
    /\ AtTag /\ end_tag_index # npos /\ IsComment
    /\ find(html_input, Str("-->"), current_index) = npos
    /\ Throw(NoClosingComment)

\* SkipTo leaving the '>' of the closing tag unread.
SkipToBracket(closing_index) == closing_index + Len(tag) + 2

\* Where the scan resumes after a skipped tag.
SkipTo(closing_index) == closing_index + Len(tag) + 3

SkipRawText ==
    /\ AtTag /\ end_tag_index # npos /\ ~IsComment /\ IsSkipTag
    /\ LET closing_index ==
               find(html_input, Str("</") \o tag \o Str(">"), current_index)
       IN  /\ closing_index # npos
           /\ current_index' = SkipTo(closing_index)
    /\ UNCHANGED <<html_input, entity_order, pc, root, stack, caught, result>>

UnterminatedRawText ==
    /\ AtTag /\ end_tag_index # npos /\ ~IsComment /\ IsSkipTag
    /\ find(html_input, Str("</") \o tag \o Str(">"), current_index) = npos
    /\ Throw(NoClosingTag)

Top == stack[Len(stack)]

\* The attributes of the node an opening tag makes.
NodeAttributes ==
    IF parsed_tag.attributes # <<>> THEN ParseAttributes(parsed_tag.attributes)
    ELSE EmptyMap

OpenTag ==
    /\ AtElementTag /\ ~is_closing_tag
    /\ stack # <<>>
    /\ LET node == ASTNode(ELEMENT, parsed_tag.tag_name, <<>>, NodeAttributes)
       IN  /\ root' = PushChild(root, Top, node)
           /\ stack' = IF parsed_tag.tag_name \notin self_closing_tags
                       THEN Append(stack,
                                Append(Top, Len(Deref(root, Top).children) + 1))
                       ELSE stack
    /\ current_index' = end_tag_index + 1
    /\ UNCHANGED <<html_input, entity_order, pc, caught, result>>

\* The test a closing tag must pass to pop the stack.
ClosesTop(tag_name) == Deref(root, Top).name = tag_name

CloseTag ==
    /\ AtElementTag /\ is_closing_tag
    /\ stack # <<>>
    /\ ClosesTop(parsed_tag.tag_name)
    /\ stack' = SubSeq(stack, 1, Len(stack) - 1)
    /\ current_index' = end_tag_index + 1
    /\ UNCHANGED <<html_input, entity_order, pc, root, caught, result>>

MismatchedTag ==
    /\ AtElementTag /\ is_closing_tag
    /\ stack # <<>>
    /\ ~ClosesTop(parsed_tag.tag_name)
    /\ Throw(TagMismatch)

TextRun ==
    /\ InLoop /\ At(html_input, current_index) # "<"
    /\ stack # <<>>
    /\ LET found          == find(html_input, <<"<">>, current_index)
           end_text_index == IF found = npos THEN Len(html_input) ELSE found
           text == substr(html_input, current_index,
                          end_text_index - current_index)
           node == ASTNode(TEXT, <<>>, DecodeEntities(text, entity_order, 1),
                           EmptyMap)
       IN  /\ root' = PushChild(root, Top, node)
           /\ current_index' = end_text_index
    /\ UNCHANGED <<html_input, entity_order, pc, stack, caught, result>>

\* stack.back() on an empty vector, in the element branch or the text
\* branch: undefined behaviour.  The call crashes, or goes on to return
\* some string.
BackOfEmptyStack ==
    /\ InLoop
    /\ AtElementTag \/ At(html_input, current_index) # "<"
    /\ stack = <<>>
    /\ \/ pc' = "crashed" /\ UNCHANGED result
       \/ pc' = "done" /\ result' \in {html_input, <<>>}
    /\ UNCHANGED <<html_input, entity_order, current_index, root, stack, caught>>

\* The loop ends: return root, whatever the stack holds.
ParseReturn ==
    /\ pc = "parse"
    /\ current_index >= Len(html_input)
    /\ pc' = "render"
    /\ UNCHANGED <<html_input, entity_order, current_index, root, stack, caught,
                   result>>

(***************************************************************************)
(* ConvertHTMLToMarkdown: return AstToMarkdown(ast), or the handler.       *)
(***************************************************************************)
RenderReturn ==
    /\ pc = "render"
    /\ LET r == AstToMarkdown(root, DefaultListLevel)
       IN  /\ r.ex = "none"
           /\ result' = r.markdown
    /\ pc' = "done"
    /\ UNCHANGED <<html_input, entity_order, current_index, root, stack, caught>>

RenderThrow ==
    /\ pc = "render"
    /\ LET r == AstToMarkdown(root, DefaultListLevel)
       IN  /\ r.ex # "none"
           /\ Throw(r.ex)

\* A handler returning an empty string instead of its input.
HandlerResultEmpty(input) == <<>>

\* What the handler returns.
HandlerResult(input) == input

\* catch (const std::exception& e): every exception thrown derives from it.
Catch ==
    /\ pc = "catch"
    /\ result' = HandlerResult(html_input)
    /\ pc' = "done"
    /\ UNCHANGED <<html_input, entity_order, current_index, root, stack, caught>>

Next ==
    \/ ReturnNotHTML
    \/ EnterParse
    \/ UnterminatedTag
    \/ SkipComment
    \/ UnterminatedComment
    \/ SkipRawText
    \/ UnterminatedRawText
    \/ OpenTag
    \/ CloseTag
    \/ MismatchedTag
    \/ TextRun
    \/ BackOfEmptyStack
    \/ ParseReturn
    \/ RenderReturn
    \/ RenderThrow
    \/ Catch

Spec == Init /\ [][Next]_vars

(***************************************************************************)
(* The properties.                                                         *)
(***************************************************************************)
\* pat occurs in s.
Occurs(pat, s) ==
    \E i \in 1..(Len(s) - Len(pat) + 1) : SubSeq(s, i, i + Len(pat) - 1) = pat

StartsWith(s, i, pat) ==
    i + Len(pat) <= Len(s) /\ SubSeq(s, i + 1, i + Len(pat)) = pat

NoRecognisedTag == \A t \in tags : ~Occurs(t, html_input)

\* The call returned what AstToMarkdown made of the whole input's tree.
Rendered ==
    /\ pc = "done" /\ caught = "none"
    /\ ~NoRecognisedTag
    /\ current_index >= Len(html_input)

\* C1: an input in which none of the recognised tags occurs is returned
\* as it is, and neither the parser nor the renderer runs on it: the call
\* goes from its start straight to its end, the tree stays empty, the scan
\* never moves and nothing is thrown.
C1_NotHTMLReturnedUnchanged ==
    (pc # "start" /\ NoRecognisedTag) =>
        /\ pc = "done"
        /\ result = html_input
        /\ root.children = <<>> /\ stack = <<>>
        /\ current_index = 0 /\ caught = "none"

C1_Witness ==
    /\ pc = "done" /\ NoRecognisedTag
    /\ html_input = Str("<strong>x</strong>")
    /\ result = html_input

ParseFailures ==
    {NoClosingBracket, NoClosingComment, NoClosingTag, TagMismatch}

\* C2: when parsing fails (a '<' with no '>' after it, a "<!--" with no
\* "-->", a raw-text tag with no closing tag, a closing tag that does not
\* name the node on top of the stack), the failure is caught and the call
\* returns its input: the failure is thrown for the stated reason, it
\* leads to the handler and nowhere else, and the result is the input,
\* as for <div><p>text</div>.
C2_ParseFailureReturnsInput ==
    /\ caught \in ParseFailures =>
          /\ pc \in {"catch", "done"}
          /\ pc = "done" => result = html_input
          /\ StartsWith(html_input, current_index, Str("<"))
    /\ caught = NoClosingBracket =>
          ~Occurs(Str(">"), substrFrom(html_input, current_index))
    /\ caught = NoClosingComment =>
          /\ StartsWith(html_input, current_index, Str("<!--"))
          /\ ~Occurs(Str("-->"), substrFrom(html_input, current_index))
    /\ caught = NoClosingTag =>
          \E t \in skip_tags :
              /\ StartsWith(html_input, current_index,
                            Str("<") \o t \o Str(">"))
              /\ ~Occurs(Str("</") \o t \o Str(">"),
                         substrFrom(html_input, current_index))
    /\ caught = TagMismatch =>
          /\ StartsWith(html_input, current_index, Str("</"))
          /\ stack # <<>>
    /\ (pc = "done" /\ html_input = MismatchDoc) =>
          (caught = TagMismatch /\ result = html_input)

C2_Witness ==
    /\ pc = "done" /\ html_input = MismatchDoc
    /\ caught = TagMismatch /\ result = MismatchDoc

\* C3: when the scan reaches the end of the input with an element still
\* open (the stack holds more than the root), the call returns its input.
C3_UnclosedAtEOFReturnsInput ==
    (pc = "done" /\ current_index >= Len(html_input) /\ Len(stack) > 1) =>
        result = html_input

\* C4: rendering never aborts on a missing attribute: no lookup throws,
\* and <a>x</a> comes out as a link with an empty target.
C4_MissingAttributeDegrades ==
    /\ caught # "map::at"
    /\ (pc = "done" /\ html_input = Str("<a>x</a>")) => result = Str("[x]()")

\* C5 as stated: a document that is one direct-wrap element around a text
\* comes out as prefix, text, suffix; <strong>x</strong> as **x**.
C5_WrapYieldsPrefixTextSuffix ==
    \A n \in DOMAIN basic_markdown_tags : \A t \in PlainTexts :
        (pc = "done" /\ html_input = Wrap(n, t)) =>
            result = basic_markdown_tags[n][1] \o t \o basic_markdown_tags[n][2]

\* C5 as amended: a document that is one direct-wrap element around a
\* text without entities is returned as it is unless a recognised tag
\* occurs in it, which of the direct-wrap names only p brings about; for p
\* the result is prefix, text, suffix and a newline.  Inside a div, a
\* direct-wrap element that is not a void tag comes out as prefix, text,
\* suffix (and a newline for p); a void one makes its closing tag a
\* mismatch, and the input is returned.
C5_WrapUnderContainmentCheck ==
    \A n \in DOMAIN basic_markdown_tags : \A t \in PlainTexts :
        LET wrapped == basic_markdown_tags[n][1] \o t
                           \o basic_markdown_tags[n][2]
                           \o (IF n = Str("p") THEN Str("\n") ELSE <<>>)
        IN  /\ (pc = "done" /\ html_input = Wrap(n, t)) =>
                  result = IF n = Str("p") THEN wrapped ELSE html_input
            /\ (pc = "done" /\ html_input = Wrap(Str("div"), Wrap(n, t))) =>
                  result = IF n \in self_closing_tags THEN html_input
                           ELSE wrapped

C5_Witness ==
    /\ pc = "done" /\ html_input = Str("<p>x</p>")
    /\ result = Str("\n\nx\n")

\* The number of tabs right before the "- item" of a list item.
Indent(markdown, item) ==
    LET at == CHOOSE i \in 0..Len(markdown) :
                  StartsWith(markdown, i, Str("- ") \o item)
    IN  Cardinality({k \in 1..at :
            \A j \in (at - k + 1)..at : markdown[j] = "\t"})

\* C6: the item of the inner list of
\* <ul><li>a<ul><li>b</li></ul></li></ul> is indented more deeply than the
\* item of the outer list.
C6_NestedItemIndentedDeeper ==
    (pc = "done" /\ html_input = NestedListDoc) =>
        /\ Occurs(Str("- a"), result) /\ Occurs(Str("- b"), result)
        /\ Indent(result, Str("b")) > Indent(result, Str("a"))

\* The tree without its elements of class "hidden".
RECURSIVE Prune(_)
Prune(node) ==
    LET keep == {i \in 1..Len(node.children) :
                    ~(node.children[i].type = ELEMENT
                      /\ Str("class") \in DOMAIN node.children[i].attributes
                      /\ node.children[i].attributes[Str("class")]
                             = Str("hidden"))}
        Nth(k) == CHOOSE i \in keep : Cardinality({j \in keep : j <= i}) = k
    IN  [node EXCEPT !.children =
            [k \in 1..Cardinality(keep) |-> Prune(node.children[Nth(k)])]]

\* C7: an element of class "hidden" emits nothing, wherever it sits: the
\* output is the output of the tree without these elements.
C7_HiddenSubtreesEmitNothing ==
    Rendered =>
        result = AstToMarkdown(Prune(root), DefaultListLevel).markdown

BodyChars == {RawTextBody[i] : i \in 1..Len(RawTextBody)}

NoBodyChar(s) == \A i \in 1..Len(s) : s[i] \notin BodyChars

\* C8 as stated: of a raw-text element, with or without attributes in its
\* opening tag, no character of the body is in what the call returns.
C8_RawTextBodyNeverReturned ==
    (pc = "done" /\ html_input \in RawTextDocs) => NoBodyChar(result)

\* The scan is at an opening tag that is exactly <script>, <style> or
\* <title>.
AtRawTextTag(t) ==
    /\ pc = "parse"
    /\ StartsWith(html_input, current_index, Str("<") \o t \o Str(">"))

\* A step taken at such a tag adds no node and, unless it fails, resumes
\* the scan right after the first closing tag that follows.
SkipsRawText(t) ==
    /\ root' = root
    /\ stack' = stack
    /\ \/ pc' = "catch"
       \/ LET closer == Str("</") \o t \o Str(">")
              from   == current_index' - Len(closer)
          IN  /\ pc' = "parse"
              /\ from >= current_index
              /\ StartsWith(html_input, from, closer)
              /\ ~Occurs(closer, SubSeq(html_input, current_index + 1,
                                        current_index' - 1))

\* The call has returned the markdown of a document of RawTextDocs whose
\* raw-text tag has no attributes.
RenderedExactRawText ==
    /\ pc = "done" /\ caught = "none"
    /\ current_index >= Len(html_input)
    /\ html_input \in RawTextDocs
    /\ \E t \in skip_tags : Occurs(Str("<") \o t \o Str(">"), html_input)

\* C8 as amended: a raw-text element whose opening tag is exactly
\* <script>, <style> or <title> creates no node when the parser meets it:
\* the step leaves the tree and the stack as they were and either fails
\* or resumes the scan right after the first closing tag that follows.
\* Its body is not in the output when the call returns rendered markdown
\* (it is when the call returns its input as it is).
C8_ExactRawTextTagCreatesNoNode ==
    [][/\ \A t \in skip_tags : (AtRawTextTag(t) => SkipsRawText(t))
       /\ (RenderedExactRawText' => NoBodyChar(result'))]_vars

C8_Witness ==
    /\ pc = "done" /\ html_input = ScriptDoc
    /\ caught = "none"
    /\ result = Str("\n\nx\n")
    /\ Len(root.children) = 1

\* One left-to-right pass over a text: at each position the entity spelt
\* there, if any, is replaced and the scan goes on after it.
RECURSIVE SinglePass(_, _)
SinglePass(text, i) ==
    IF i >= Len(text) THEN <<>>
    ELSE LET here == {e \in DOMAIN html_entities : StartsWith(text, i, e)}
         IN  IF here = {} THEN <<At(text, i)>> \o SinglePass(text, i + 1)
             ELSE LET e == CHOOSE e \in here : TRUE
                  IN  html_entities[e] \o SinglePass(text, i + Len(e))

\* C9: the text of a paragraph is decoded in a single pass, whatever the
\* order of the entity table: what decoding produces is not decoded
\* again, and &amp;lt; comes out as &lt;.
C9_EntitiesDecodedOnce ==
    (/\ Rendered
     /\ Len(html_input) >= 7
     /\ StartsWith(html_input, 0, Str("<p>"))
     /\ StartsWith(html_input, Len(html_input) - 4, Str("</p>"))
     /\ ~Occurs(Str("<"), SubSeq(html_input, 4, Len(html_input) - 4)))
        => result = Str("\n\n")
                      \o SinglePass(SubSeq(html_input, 4, Len(html_input) - 4), 0)
                      \o Str("\n")

\* C10: while ParseHTMLToAST runs, its stack is not empty and its bottom
\* entry is the root.
C10_RootStaysOnStack ==
    pc = "parse" => (stack # <<>> /\ stack[1] = <<>>)

=============================================================================
